---- MODULE Spec2Model ----
(***************************************************************************)
(* Model of @affectively/behavioral-taxonomy (src/src/index.ts): four      *)
(* static JSON documents and the accessor functions over them.            *)
(*                                                                         *)
(* The documents are module-level constants of the program; the code      *)
(* validates none of them, so the initial states range over every         *)
(* document of the declared shape within the bounds below.  Each action   *)
(* is one call of an exported function: it records the call and what the  *)
(* function returns.                                                      *)
(***************************************************************************)
EXTENDS Integers, Sequences, FiniteSets, TLC

VARIABLES
    data,        \* behavioralLoopsData: [metadata, categories]
    biasesData,  \* biasesData: a dictionary, as its entries in key order
    traitsData,  \* traitsData: a dictionary, as its entries in key order
    call,        \* the last call: [op, arg]
    ret          \* what the last call returned

vars == <<data, biasesData, traitsData, call, ret>>

(***************************************************************************)
(* Bounds                                                                  *)
(***************************************************************************)
MaxCats == 2       \* categories of a document (structure, SpecLoops)
MaxLoops == 2      \* loops of one category (structure, SpecLoops)
MaxText == 2       \* characters of a stored text and of a query (SpecSearch)
MaxStatLoops == 3  \* loops of the document (origins and totals, SpecStats)
MaxAvgLoops == 4   \* loops of the document (average, SpecAverage)
MaxEntries == 2    \* entries of a dictionary (SpecDicts)

(***************************************************************************)
(* JavaScript values                                                       *)
(***************************************************************************)
\* `undefined`: what Array.prototype.find and a missing property give.
Undefined == [type |-> "undefined"]

\* The result of 0 / 0, and of Math.round of it.
NaN == [type |-> "NaN"]

\* A finite number, held exactly in tenths (value = tenths / 10).
Num(tenths) == [type |-> "number", tenths |-> tenths]

\* `null`, a value a JSON document may hold.
Null == [type |-> "null"]

\* A string value of a JSON document.
Str(s) == [type |-> "string", value |-> s]

\* No argument.
NoArg == [type |-> "none"]

\* A call that returned v, and a call that threw the error e.
Return(v) == [kind |-> "return", value |-> v]
Throw(e) == [kind |-> "throw", error |-> e]

\* The object literal {}
EmptyObject == [p \in {} |-> 0]

\* Property access item.p on an object (a record): a missing property reads
\* as undefined.
Prop(item, p) == IF p \in DOMAIN item THEN item[p] ELSE Undefined

\* ToBoolean, on the values the documents hold: undefined, null and the
\* empty string are falsy; a non-empty string is truthy.
Truthy(v) ==
    CASE v.type = "undefined" -> FALSE
      [] v.type = "null" -> FALSE
      [] v.type = "string" -> v.value # ""
      [] OTHER -> TRUE

(***************************************************************************)
(* Array helpers                                                           *)
(***************************************************************************)
\* The concatenation of a sequence of sequences, in order (the flattening
\* step of Array.prototype.flatMap)
RECURSIVE Flatten(_)
Flatten(ss) == IF ss = <<>> THEN <<>> ELSE Head(ss) \o Flatten(Tail(ss))

(***************************************************************************)
(* Strings: a text is the sequence of its UTF-16 code units.  An ASCII     *)
(* code unit is written as the one-character string itself, any other as   *)
(* the name of its code point ("U+03A3").  The code units modelled are the *)
(* ASCII ones and the five named below; toLowerCase is defined on texts of *)
(* these.                                                                  *)
(***************************************************************************)
\* The ASCII characters of the stored texts and of the queries.
Chars == {"a", "A", "-"}

\* The ASCII letters, upper case and lower case, in alphabetical order
UpperCase ==
    <<"A", "B", "C", "D", "E", "F", "G", "H", "I", "J", "K", "L", "M",
      "N", "O", "P", "Q", "R", "S", "T", "U", "V", "W", "X", "Y", "Z">>

LowerCase ==
    <<"a", "b", "c", "d", "e", "f", "g", "h", "i", "j", "k", "l", "m",
      "n", "o", "p", "q", "r", "s", "t", "u", "v", "w", "x", "y", "z">>

\* GREEK CAPITAL LETTER SIGMA, GREEK SMALL LETTER SIGMA, GREEK SMALL LETTER
\* FINAL SIGMA, LATIN CAPITAL LETTER I WITH DOT ABOVE, COMBINING DOT ABOVE
CapitalSigma == "U+03A3"

SmallSigma == "U+03C3"

SmallFinalSigma == "U+03C2"

CapitalIWithDot == "U+0130"

CombiningDot == "U+0307"

\* GRAVE ACCENT, the one ASCII character written by the name of its code point
GraveAccent == "U+0060"

\* The simple lower-case mappings of the code units modelled that have one:
\* each upper-case letter to its lower-case letter
SimpleLowerCase ==
    [c \in {UpperCase[i] : i \in 1..Len(UpperCase)} \cup {CapitalSigma} |->
        IF c = CapitalSigma THEN SmallSigma
        ELSE LowerCase[CHOOSE i \in 1..Len(UpperCase) : c = UpperCase[i]]]

\* The cased letters among the code units modelled
CasedLetters ==
    {UpperCase[i] : i \in 1..Len(UpperCase)}
        \cup {LowerCase[i] : i \in 1..Len(LowerCase)}
        \cup {CapitalSigma, SmallSigma, SmallFinalSigma, CapitalIWithDot}

\* Unicode property Cased
Cased(c) == c \in CasedLetters

\* Unicode property Case_Ignorable, on the code units modelled: the
\* apostrophe, the full stop, the colon, the circumflex, the grave accent
\* and the combining dot
CaseIgnorable(c) == c \in {"'", ".", ":", "^", GraveAccent, CombiningDot}

\* The simple lower-case mapping of one code unit: an upper-case letter
\* becomes its lower-case letter, every other code unit is kept.
lowerChar(c) ==
    IF c \in DOMAIN SimpleLowerCase THEN SimpleLowerCase[c] ELSE c

\* The Final_Sigma condition of Unicode's SpecialCasing, which toLowerCase
\* applies: s[i] follows a cased letter, with only case-ignorable code units
\* between, and no cased letter follows s[i] in the same way.
IsFinalSigma(s, i) ==
    /\ \E j \in 1..(i - 1) :
          /\ Cased(s[j])
          /\ \A k \in (j + 1)..(i - 1) : CaseIgnorable(s[k])
    /\ ~ \E j \in (i + 1)..Len(s) :
          /\ Cased(s[j])
          /\ \A k \in (i + 1)..(j - 1) : CaseIgnorable(s[k])

\* The code units s[i] becomes under toLowerCase: a capital sigma becomes
\* the final sigma where the Final_Sigma condition holds, a capital I with
\* dot above becomes two code units, any other code unit its simple mapping.
lowerAt(s, i) ==
    IF s[i] = CapitalSigma
    THEN IF IsFinalSigma(s, i) THEN <<SmallFinalSigma>> ELSE <<SmallSigma>>
    ELSE IF s[i] = CapitalIWithDot THEN <<"i", CombiningDot>>
    ELSE <<lowerChar(s[i])>>

\* String.prototype.toLowerCase
toLowerCase(s) == Flatten([i \in 1..Len(s) |-> lowerAt(s, i)])

\* String.prototype.includes: sub occurs in s as a contiguous substring
includes(s, sub) ==
    \E k \in 0..(Len(s) - Len(sub)) : SubSeq(s, k + 1, k + Len(sub)) = sub

(***************************************************************************)
(* Data accessors                                                          *)
(***************************************************************************)
\* getBehavioralLoops(): the loaded document, unchanged
getBehavioralLoops == data

\* A faulty getAllLoops: only the first category's loops
getAllLoopsFirstOnly(d) ==
    IF d.categories = <<>> THEN <<>> ELSE d.categories[1].loops

\* A faulty getAllLoops: the categories are taken last to first
getAllLoopsReversed(d) ==
    LET n == Len(d.categories)
    IN  Flatten([i \in 1..n |-> d.categories[n + 1 - i].loops])

\* getAllLoops(): data.categories.flatMap((cat) => cat.loops)
getAllLoops(d) ==
    Flatten([i \in 1..Len(d.categories) |-> d.categories[i].loops])

\* A faulty getLoopsByCategory: the `?? []` is missing, so an absent
\* category gives undefined
getLoopsByCategoryNoDefault(d, categoryId) ==
    LET hits == {i \in 1..Len(d.categories) : d.categories[i].id = categoryId}
    IN  IF hits = {} THEN Undefined
        ELSE d.categories[CHOOSE i \in hits : \A j \in hits : i <= j].loops

\* getLoopsByCategory(categoryId): the loops of the first category whose id
\* is categoryId; [] when find() gives undefined
getLoopsByCategory(d, categoryId) ==
    LET hits == {i \in 1..Len(d.categories) : d.categories[i].id = categoryId}
    IN  IF hits = {} THEN <<>>
        ELSE d.categories[CHOOSE i \in hits : \A j \in hits : i <= j].loops

\* A faulty findLoopsByTag: the query is not lower-cased
findLoopsByTagRawQuery(d, tag) ==
    SelectSeq(getAllLoops(d),
              LAMBDA loop : \E i \in 1..Len(loop.meta.tags) :
                  includes(toLowerCase(loop.meta.tags[i]), tag))

\* findLoopsByTag(tag): the loops one of whose tags, lower-cased, includes
\* the lower-cased tag
findLoopsByTag(d, tag) ==
    SelectSeq(getAllLoops(d),
              LAMBDA loop : \E i \in 1..Len(loop.meta.tags) :
                  includes(toLowerCase(loop.meta.tags[i]), toLowerCase(tag)))

\* findLoopsByOrigin(origin): the loops whose taxonomy.origin === origin
findLoopsByOrigin(d, origin) ==
    SelectSeq(getAllLoops(d), LAMBDA loop : loop.taxonomy.origin = origin)

\* A faulty getLoopById: the last loop carrying the id, not the first
getLoopByIdLast(d, id) ==
    LET all == getAllLoops(d)
        hits == {i \in 1..Len(all) : all[i].id = id}
    IN  IF hits = {} THEN Undefined
        ELSE all[CHOOSE i \in hits : \A j \in hits : i >= j]

\* getLoopById(id): the first loop of getAllLoops() whose id === id, or
\* undefined
getLoopById(d, id) ==
    LET all == getAllLoops(d)
        hits == {i \in 1..Len(all) : all[i].id = id}
    IN  IF hits = {} THEN Undefined
        ELSE all[CHOOSE i \in hits : \A j \in hits : i <= j]

\* searchLoops(query): the loops whose name, logic.given or logic.result,
\* lower-cased, includes the lower-cased query
searchLoops(d, query) ==
    LET lowerQuery == toLowerCase(query)
    IN  SelectSeq(getAllLoops(d),
                  LAMBDA loop :
                      \/ includes(toLowerCase(loop.name), lowerQuery)
                      \/ includes(toLowerCase(loop.logic.given), lowerQuery)
                      \/ includes(toLowerCase(loop.logic.result), lowerQuery))

\* A faulty getBiases: Object.values(biasesData), nothing filtered out
getBiasesUnfiltered(b) == Return([i \in 1..Len(b) |-> b[i].value])

\* getBiases(): Object.values(biasesData).filter((item) => item.id).
\* Reading item.id of a null value throws a TypeError.
getBiases(b) ==
    IF \E i \in 1..Len(b) : b[i].value = Null
    THEN Throw("TypeError")
    ELSE Return(SelectSeq([i \in 1..Len(b) |-> b[i].value],
                          LAMBDA item : Truthy(Prop(item, "id"))))

\* A faulty spread, { ...trait }: the key is not injected
spreadOverNoKey(id, trait) ==
    IF trait = Null THEN EmptyObject ELSE trait

\* The object literal { id, ...trait }: the property id is set to the key
\* first, then every own property of trait is copied over it.  Spreading
\* null copies nothing.
spreadOver(id, trait) ==
    LET own == IF trait = Null THEN {} ELSE DOMAIN trait
    IN  [p \in {"id"} \cup own |-> IF p \in own THEN trait[p] ELSE Str(id)]

\* getTraits(): Object.entries(traitsData).map(([id, trait]) =>
\*                  ({ id, ...trait }))
getTraits(t) == [i \in 1..Len(t) |-> spreadOver(t[i].key, t[i].value)]

(***************************************************************************)
(* Statistics                                                              *)
(***************************************************************************)
\* The reducer of loopsByOrigin: acc[origin] = (acc[origin] || 0) + 1
countOrigin(acc, loop) ==
    LET origin == loop.taxonomy.origin
    IN  [o \in DOMAIN acc \cup {origin} |->
            IF o = origin
            THEN (IF o \in DOMAIN acc THEN acc[o] ELSE 0) + 1
            ELSE acc[o]]

\* allLoops.reduce(countOrigin, {}), folded from the left
RECURSIVE reduceOrigins(_, _)
reduceOrigins(acc, loops) ==
    IF loops = <<>> THEN acc
    ELSE reduceOrigins(countOrigin(acc, Head(loops)), Tail(loops))

\* allLoops.reduce((sum, loop) => sum + loop.intervention.difficulty, 0)
RECURSIVE sumDifficulty(_, _)
sumDifficulty(sum, loops) ==
    IF loops = <<>> THEN sum
    ELSE sumDifficulty(sum + Head(loops).intervention.difficulty, Tail(loops))

\* A faulty rounding: Math.floor in place of Math.round
roundedAverageFloor(sum, n) ==
    IF n = 0 THEN NaN
    ELSE Num((10 * sum) \div n)

\* Math.round(avgDifficulty * 10) / 10 with avgDifficulty = sum / n:
\* Math.round(x) is floor(x + 0.5), so the result in tenths is
\* floor((20 * sum + n) / (2 * n)); 0 / 0 is NaN and stays NaN.
roundedAverage(sum, n) ==
    IF n = 0 THEN NaN
    ELSE Num((20 * sum + n) \div (2 * n))

\* A faulty getStatistics: the totals are counted from the categories
getStatisticsRecount(d) ==
    LET allLoops == getAllLoops(d)
    IN  [totalLoops |-> Len(allLoops),
         totalCategories |-> Len(d.categories),
         loopsByOrigin |-> reduceOrigins(EmptyObject, allLoops),
         averageInterventionDifficulty |->
             roundedAverage(sumDifficulty(0, allLoops), Len(allLoops))]

\* getStatistics()
getStatistics(d) ==
    LET allLoops == getAllLoops(d)
    IN  [totalLoops |-> d.metadata.totalLoops,
         totalCategories |-> d.metadata.totalCategories,
         loopsByOrigin |-> reduceOrigins(EmptyObject, allLoops),
         averageInterventionDifficulty |->
             roundedAverage(sumDifficulty(0, allLoops), Len(allLoops))]

(***************************************************************************)
(* The documents                                                           *)
(***************************************************************************)
\* The sequences over S of length at most n
SeqsUpTo(S, n) == UNION {[1..k -> S] : k \in 0..n}

\* type LoopOrigin
LoopOrigin == {"GENETIC", "BEHAVIORAL", "NARRATIVE", "DIGITAL", "ENVIRONMENTAL"}

\* A BehavioralLoop as the document states it, with the fields the
\* accessors read.
LoopOf(id, name, given, result, origin, difficulty, tags) ==
    [id |-> id,
     name |-> name,
     logic |-> [given |-> given, result |-> result],
     taxonomy |-> [origin |-> origin],
     intervention |-> [difficulty |-> difficulty],
     meta |-> [tags |-> tags]]

\* The import of behavioralLoops.json: every loop of the document becomes
\* an object of its own.  ref is the object's identity (its place in the
\* document), so that two loops with equal fields are still two loops.
Load(metadata, categories) ==
    [metadata |-> metadata,
     categories |->
        [c \in 1..Len(categories) |->
            [id |-> categories[c].id,
             loops |-> [l \in 1..Len(categories[c].loops) |->
                           [ref |-> <<c, l>>] @@ categories[c].loops[l]]]]]

\* The number of loops the categories hold
RECURSIVE CountLoops(_)
CountLoops(categories) ==
    IF categories = <<>> THEN 0
    ELSE Len(Head(categories).loops) + CountLoops(Tail(categories))

\* A metadata block whose declared totals are those of the categories
ConsistentMeta(categories) ==
    [totalLoops |-> CountLoops(categories), totalCategories |-> Len(categories)]

\* Category identifiers and loop identifiers of the documents; NoCat and
\* NoLoopId are carried by no category and no loop.
CatIds == {"digital-cognitive", "dental-oral"}
NoCat == "no-such-category"
LoopIds == {1, 2}
NoLoopId == 1 + Cardinality(LoopIds)

\* A loop that only its identifier tells apart
PlainLoop(id) == LoopOf(id, <<>>, <<>>, <<>>, "DIGITAL", 5, <<>>)

\* The documents of SpecLoops: up to MaxCats categories of up to MaxLoops
\* loops; category and loop identifiers may repeat.
LoopDocs ==
    LET loops == {PlainLoop(id) : id \in LoopIds}
        cats == [id : CatIds, loops : SeqsUpTo(loops, MaxLoops)]
    IN  {Load(ConsistentMeta(cs), cs) : cs \in SeqsUpTo(cats, MaxCats)}

\* The documents the other specifications hold fixed
EmptyDoc == Load(ConsistentMeta(<<>>), <<>>)
DefaultBiases == <<>>
DefaultTraits == <<>>

(***************************************************************************)
(* Calls                                                                   *)
(***************************************************************************)
Idle == [op |-> "none", arg |-> NoArg]

CallGetAllLoops ==
    /\ call' = [op |-> "getAllLoops", arg |-> NoArg]
    /\ ret' = Return(getAllLoops(getBehavioralLoops))
    /\ UNCHANGED <<data, biasesData, traitsData>>

CallGetLoopsByCategory ==
    \E categoryId \in CatIds \cup {NoCat} :
        /\ call' = [op |-> "getLoopsByCategory", arg |-> categoryId]
        /\ ret' = Return(getLoopsByCategory(getBehavioralLoops, categoryId))
        /\ UNCHANGED <<data, biasesData, traitsData>>

CallGetLoopById ==
    \E id \in LoopIds \cup {NoLoopId} :
        /\ call' = [op |-> "getLoopById", arg |-> id]
        /\ ret' = Return(getLoopById(getBehavioralLoops, id))
        /\ UNCHANGED <<data, biasesData, traitsData>>

(***************************************************************************)
(* SpecLoops: the structure of the loops document                          *)
(***************************************************************************)
InitLoops ==
    /\ data \in LoopDocs
    /\ biasesData = DefaultBiases
    /\ traitsData = DefaultTraits
    /\ call = Idle
    /\ ret = Return(Undefined)

NextLoops ==
    \/ CallGetAllLoops
    \/ CallGetLoopsByCategory
    \/ CallGetLoopById

SpecLoops == InitLoops /\ [][NextLoops]_vars

(***************************************************************************)
(* SpecSearch: tag search and free-text search                             *)
(***************************************************************************)
\* The word of the spec's example in its two cases, and texts with a sigma
ExampleTexts ==
    {<<"T", "R", "U", "S", "T">>, <<"t", "r", "u", "s", "t">>,
     <<CapitalSigma>>, <<SmallSigma>>,
     <<"a", CapitalSigma>>, <<"a", SmallSigma>>}

\* The stored texts and the queries: the texts of at most MaxText ASCII
\* characters, and the example texts
Texts == SeqsUpTo(Chars, MaxText) \cup ExampleTexts

\* A loop holding one text in one of the places the searches read: its
\* name, its logic.given, its logic.result, or its only tag
TextLoop(place, text) ==
    LoopOf(1,
           IF place = "name" THEN text ELSE <<>>,
           IF place = "given" THEN text ELSE <<>>,
           IF place = "result" THEN text ELSE <<>>,
           "DIGITAL", 5,
           IF place = "tag" THEN <<text>> ELSE <<>>)

\* The documents of SpecSearch: one category of no loop, of one loop with a
\* text in any place, or of such a loop followed by a loop named "A" or
\* tagged "A"
SearchDocs ==
    LET first == {TextLoop(p, t) : p \in {"name", "given", "result", "tag"},
                                   t \in Texts}
        second == {TextLoop(p, <<"A">>) : p \in {"name", "tag"}}
        lists == {<<>>} \cup {<<a>> : a \in first}
                        \cup {<<a, b>> : a \in first, b \in second}
    IN  {Load(ConsistentMeta(<<c>>), <<c>>) :
            c \in [id : {"digital-cognitive"}, loops : lists]}

CallFindLoopsByTag ==
    \E tag \in Texts :
        /\ call' = [op |-> "findLoopsByTag", arg |-> tag]
        /\ ret' = Return(findLoopsByTag(getBehavioralLoops, tag))
        /\ UNCHANGED <<data, biasesData, traitsData>>

CallSearchLoops ==
    \E query \in Texts :
        /\ call' = [op |-> "searchLoops", arg |-> query]
        /\ ret' = Return(searchLoops(getBehavioralLoops, query))
        /\ UNCHANGED <<data, biasesData, traitsData>>

InitSearch ==
    /\ data \in SearchDocs
    /\ biasesData = DefaultBiases
    /\ traitsData = DefaultTraits
    /\ call = Idle
    /\ ret = Return(Undefined)

NextSearch ==
    \/ CallFindLoopsByTag
    \/ CallSearchLoops

SpecSearch == InitSearch /\ [][NextSearch]_vars

(***************************************************************************)
(* SpecStats: loopsByOrigin and the declared totals                        *)
(***************************************************************************)
\* The totals a metadata block may declare, whatever the categories hold
DeclaredLoops == {0, 2, 1140}
DeclaredCategories == {1, 279}

\* The documents of SpecStats: no category, or one category of up to
\* MaxStatLoops loops of any origin; any declared totals
StatsDocs ==
    LET loops == {LoopOf(1, <<>>, <<>>, <<>>, o, 5, <<>>) : o \in LoopOrigin}
        cats == [id : {"digital-cognitive"}, loops : SeqsUpTo(loops, MaxStatLoops)]
        metas == [totalLoops : DeclaredLoops, totalCategories : DeclaredCategories]
    IN  {Load(m, cs) : m \in metas, cs \in {<<>>} \cup {<<c>> : c \in cats}}

CallFindLoopsByOrigin ==
    \E origin \in LoopOrigin :
        /\ call' = [op |-> "findLoopsByOrigin", arg |-> origin]
        /\ ret' = Return(findLoopsByOrigin(getBehavioralLoops, origin))
        /\ UNCHANGED <<data, biasesData, traitsData>>

CallGetStatistics ==
    /\ call' = [op |-> "getStatistics", arg |-> NoArg]
    /\ ret' = Return(getStatistics(getBehavioralLoops))
    /\ UNCHANGED <<data, biasesData, traitsData>>

InitStats ==
    /\ data \in StatsDocs
    /\ biasesData = DefaultBiases
    /\ traitsData = DefaultTraits
    /\ call = Idle
    /\ ret = Return(Undefined)

NextStats ==
    \/ CallGetStatistics
    \/ CallFindLoopsByOrigin

SpecStats == InitStats /\ [][NextStats]_vars

(***************************************************************************)
(* SpecAverage: averageInterventionDifficulty                              *)
(***************************************************************************)
\* intervention.difficulty: the documented range, 1 to 10
Difficulties == 1..10

\* The documents of SpecAverage: no category, or one category of up to
\* MaxAvgLoops loops of any difficulty
AverageDocs ==
    LET loops == {LoopOf(1, <<>>, <<>>, <<>>, "DIGITAL", k, <<>>) :
                     k \in Difficulties}
        cats == [id : {"digital-cognitive"}, loops : SeqsUpTo(loops, MaxAvgLoops)]
    IN  {Load(ConsistentMeta(cs), cs) : cs \in {<<>>} \cup {<<c>> : c \in cats}}

InitAverage ==
    /\ data \in AverageDocs
    /\ biasesData = DefaultBiases
    /\ traitsData = DefaultTraits
    /\ call = Idle
    /\ ret = Return(Undefined)

NextAverage == CallGetStatistics \/ CallGetAllLoops

SpecAverage == InitAverage /\ [][NextAverage]_vars

(***************************************************************************)
(* SpecDicts: the biases and traits dictionaries                           *)
(***************************************************************************)
\* The dictionaries over the keys K of at most MaxEntries entries, in key
\* order: no key twice, each key k with one of the values V[k]
DictsOver(K, V) ==
    LET entries == [key : K, value : UNION {V[k] : k \in K}]
    IN  {e \in SeqsUpTo(entries, MaxEntries) :
            /\ \A i \in 1..Len(e) : e[i].value \in V[e[i].key]
            /\ \A i, j \in 1..Len(e) : e[i].key = e[j].key => i = j}

\* The values of biases.json under a key: null, an object without an id,
\* an object with an empty id, an object whose id is the key
BiasValues(key) ==
    {Null,
     [name |-> Str("n")],
     [id |-> Str(""), name |-> Str("n")],
     [id |-> Str(key), name |-> Str("n")]}

BiasKeys == {"_metadata", "anchoring", "framing"}

\* The values of traits.json under a key: null, an object without an id,
\* an object whose id is the key, an object with another id
TraitValues(key) ==
    {Null,
     [name |-> Str("n")],
     [id |-> Str(key), name |-> Str("n")],
     [id |-> Str("other"), name |-> Str("n")]}

TraitKeys == {"openness", "grit", "candor"}

CallGetBiases ==
    /\ call' = [op |-> "getBiases", arg |-> NoArg]
    /\ ret' = getBiases(biasesData)
    /\ UNCHANGED <<data, biasesData, traitsData>>

CallGetTraits ==
    /\ call' = [op |-> "getTraits", arg |-> NoArg]
    /\ ret' = Return(getTraits(traitsData))
    /\ UNCHANGED <<data, biasesData, traitsData>>

InitDicts ==
    /\ data = EmptyDoc
    /\ \/ /\ biasesData \in DictsOver(BiasKeys, [k \in BiasKeys |-> BiasValues(k)])
          /\ traitsData = DefaultTraits
       \/ /\ biasesData = DefaultBiases
          /\ traitsData \in DictsOver(TraitKeys, [k \in TraitKeys |-> TraitValues(k)])
    /\ call = Idle
    /\ ret = Return(Undefined)

NextDicts ==
    \/ CallGetBiases
    \/ CallGetTraits

SpecDicts == InitDicts /\ [][NextDicts]_vars

(***************************************************************************)
(* Claims on the structure of the loops document (SpecLoops)               *)
(***************************************************************************)
\* The elements of a sequence
Range(s) == {s[i] : i \in 1..Len(s)}

\* The category identifiers of the document, category by category
CategoryIdsOf(d) == [i \in 1..Len(d.categories) |-> d.categories[i].id]

\* No two categories carry the same identifier
CategoryIdsDistinct(d) ==
    \A i, j \in 1..Len(d.categories) :
        d.categories[i].id = d.categories[j].id => i = j

\* No element occurs twice in the sequence
NoDuplicates(s) == \A i, j \in 1..Len(s) : s[i] = s[j] => i = j

\* getLoopsByCategory(c.id) concatenated over the categories c
CategoryLists(d) ==
    Flatten([i \in 1..Len(d.categories) |->
                getLoopsByCategory(d, d.categories[i].id)])

\* The partition property on the document d, as seen after the last call
PartitionHolds(d) ==
    LET all == getAllLoops(d)
        ids == Range(CategoryIdsOf(d))
    IN  /\ call.op = "getAllLoops" =>
              /\ ret = Return(CategoryLists(d))
              /\ NoDuplicates(CategoryLists(d))
              /\ \A i \in 1..Len(ret.value) :
                    Cardinality({id \in ids :
                        ret.value[i] \in Range(getLoopsByCategory(d, id))}) = 1
        /\ call.op = "getLoopsByCategory" =>
              Range(ret.value) \subseteq Range(all)

\* C1 as stated: on every document, getLoopsByCategory(c.id) concatenated
\* over the categories c is exactly getAllLoops(), without duplicates or
\* omissions, and every loop of getAllLoops() is returned for exactly one
\* category identifier.
C1_PartitionAnyDocument == PartitionHolds(data)

\* C1 amended: the partition property holds on every document whose
\* category identifiers are pairwise distinct.
C1_PartitionDistinctIds == CategoryIdsDistinct(data) => PartitionHolds(data)

\* C1 witness: getAllLoops() was called on a document of two categories
\* with distinct identifiers, each holding a loop.
C1_Witness ==
    /\ call.op = "getAllLoops"
    /\ Len(data.categories) = 2
    /\ CategoryIdsDistinct(data)
    /\ \A i \in 1..2 : data.categories[i].loops # <<>>
    /\ Len(ret.value) >= 2

\* C2 as stated: for every loop L of getAllLoops(), getLoopById(L.id)
\* returns L itself.
C2_RoundTripEveryLoop ==
    LET all == getAllLoops(data)
    IN  call.op = "getLoopById" =>
            \A i \in 1..Len(all) : all[i].id = call.arg => ret = Return(all[i])

\* C2 amended: for every loop L of getAllLoops() that no earlier loop shares
\* its identifier with (every loop, when identifiers are unique),
\* getLoopById(L.id) returns L itself.
C2_RoundTripFirstCarrier ==
    LET all == getAllLoops(data)
    IN  call.op = "getLoopById" =>
            \A i \in 1..Len(all) :
                (/\ all[i].id = call.arg
                 /\ \A j \in 1..(i - 1) : all[j].id # call.arg)
                => ret = Return(all[i])

\* C2 witness: getLoopById found the second loop of a document of at least
\* two loops.
C2_Witness ==
    LET all == getAllLoops(data)
    IN  /\ call.op = "getLoopById"
        /\ Len(all) >= 2
        /\ all[2].id = call.arg
        /\ ret = Return(all[2])

\* C5: getLoopsByCategory(x) returns the empty sequence for every x that no
\* category carries, getLoopById(n) returns undefined for every n that no
\* loop carries, and neither raises; also on a document without categories.
C5_AbsentIsEmpty ==
    /\ (/\ call.op = "getLoopsByCategory"
        /\ call.arg \notin Range(CategoryIdsOf(data)))
       => ret = Return(<<>>)
    /\ (/\ call.op = "getLoopById"
        /\ \A i \in 1..Len(getAllLoops(data)) :
              getAllLoops(data)[i].id # call.arg)
       => ret = Return(Undefined)

\* C5 witness: a category identifier that none of the document's categories
\* carries was looked up, and the empty sequence came back.
C5_Witness ==
    /\ call.op = "getLoopsByCategory"
    /\ data.categories # <<>>
    /\ call.arg \notin Range(CategoryIdsOf(data))
    /\ ret = Return(<<>>)

\* ref orders the loops of a document: by category, then by place in the
\* category's list
Precedes(a, b) ==
    \/ a.ref[1] < b.ref[1]
    \/ a.ref[1] = b.ref[1] /\ a.ref[2] < b.ref[2]

\* s is a contiguous segment of t
IsSegment(s, t) ==
    \E k \in 0..(Len(t) - Len(s)) : SubSeq(t, k + 1, k + Len(s)) = s

\* getAllLoops() holds every loop of every category once, a before b exactly
\* when a's category comes first or, in one category, a comes first
FlatOrderHolds(d) ==
    call.op = "getAllLoops" =>
        /\ \A c \in 1..Len(d.categories) :
              \A l \in 1..Len(d.categories[c].loops) :
                  \E i \in 1..Len(ret.value) :
                      ret.value[i] = d.categories[c].loops[l]
        /\ Len(ret.value) = CountLoops(d.categories)
        /\ \A i, j \in 1..Len(ret.value) :
              i < j <=> Precedes(ret.value[i], ret.value[j])

\* C10 as stated: getAllLoops() is the concatenation of the categories' loop
\* lists in category order, and for every category c of the document
\* getLoopsByCategory(c.id) returns exactly c's loops in their stored order,
\* a contiguous segment of getAllLoops().
C10_OrderEveryCategory ==
    /\ FlatOrderHolds(data)
    /\ call.op = "getLoopsByCategory" =>
          \A c \in 1..Len(data.categories) :
              data.categories[c].id = call.arg =>
                  /\ ret = Return(data.categories[c].loops)
                  /\ IsSegment(ret.value, getAllLoops(data))

\* C10 amended: getAllLoops() is the concatenation of the categories' loop
\* lists in category order, and getLoopsByCategory(id) returns exactly the
\* loops of the first category carrying id (the category itself when
\* identifiers are distinct), in their stored order, a contiguous segment of
\* getAllLoops().
C10_OrderFirstCategory ==
    /\ FlatOrderHolds(data)
    /\ call.op = "getLoopsByCategory" =>
          \A c \in 1..Len(data.categories) :
              (/\ data.categories[c].id = call.arg
               /\ \A b \in 1..(c - 1) : data.categories[b].id # call.arg)
              => /\ ret = Return(data.categories[c].loops)
                 /\ IsSegment(ret.value, getAllLoops(data))

\* C10 witness: the second category's loops were asked for by its
\* identifier and came back as the tail segment of a longer getAllLoops().
C10_Witness ==
    /\ call.op = "getLoopsByCategory"
    /\ Len(data.categories) = 2
    /\ data.categories[1].loops # <<>>
    /\ Len(data.categories[2].loops) = 2
    /\ data.categories[2].id = call.arg
    /\ ret = Return(data.categories[2].loops)

(***************************************************************************)
(* Claims on the searches (SpecSearch)                                     *)
(***************************************************************************)
\* The code units beyond ASCII that the model names
NonAscii ==
    {CapitalSigma, SmallSigma, SmallFinalSigma, CapitalIWithDot, CombiningDot}

\* The code units a text or one of its case variants is made of
CodeUnits ==
    Chars \cup {UpperCase[i] : i \in 1..Len(UpperCase)}
          \cup {LowerCase[i] : i \in 1..Len(LowerCase)}
          \cup NonAscii

\* Two characters that are one letter in its two cases, or one character
SameLetter(c1, c2) ==
    \/ c1 = c2
    \/ \E i \in 1..Len(UpperCase) : {c1, c2} = {UpperCase[i], LowerCase[i]}
    \/ {c1, c2} = {CapitalSigma, SmallSigma}

\* A text of ASCII characters only
IsAscii(s) == \A i \in 1..Len(s) : s[i] \notin NonAscii

\* Every tag, name and narrative field the searches read is ASCII
StoredTextsAscii(d) ==
    \A c \in 1..Len(d.categories) :
        \A l \in 1..Len(d.categories[c].loops) :
            LET loop == d.categories[c].loops[l]
            IN  /\ IsAscii(loop.name)
                /\ IsAscii(loop.logic.given)
                /\ IsAscii(loop.logic.result)
                /\ \A t \in 1..Len(loop.meta.tags) : IsAscii(loop.meta.tags[t])

\* The sequences whose i-th element is drawn from the i-th set
RECURSIVE Choices(_)
Choices(sets) ==
    IF sets = <<>> THEN {<<>>}
    ELSE {<<h>> \o t : h \in Head(sets), t \in Choices(Tail(sets))}

\* For each code unit, the code units that are the same letter
LetterForms == [c \in CodeUnits |-> {x \in CodeUnits : SameLetter(c, x)}]

\* The texts that differ from s in letter case only
CaseVariants(s) == Choices([i \in 1..Len(s) |-> LetterForms[s[i]]])

\* The loops that differ from loop in the letter case of the name, of the
\* narrative fields and of the tags only
LoopCaseVariants(loop) ==
    {[loop EXCEPT !.name = n, !.logic.given = g, !.logic.result = r,
                  !.meta.tags = ts] :
        n \in CaseVariants(loop.name),
        g \in CaseVariants(loop.logic.given),
        r \in CaseVariants(loop.logic.result),
        ts \in Choices([i \in 1..Len(loop.meta.tags) |->
                           CaseVariants(loop.meta.tags[i])])}

\* The categories that differ from cat in the letter case of stored texts
CategoryCaseVariants(cat) ==
    {[cat EXCEPT !.loops = ls] :
        ls \in Choices([i \in 1..Len(cat.loops) |->
                           LoopCaseVariants(cat.loops[i])])}

\* The documents that differ from d in the letter case of stored texts only
DocCaseVariants(d) ==
    {[d EXCEPT !.categories = cs] :
        cs \in Choices([i \in 1..Len(d.categories) |->
                           CategoryCaseVariants(d.categories[i])])}

\* Which loops a result holds, in order
Refs(loops) == [i \in 1..Len(loops) |-> loops[i].ref]

\* C6: findLoopsByTag and searchLoops return the same loops in the same
\* order for any two queries that differ in letter case only, and for any
\* two documents whose stored tags, names and narrative fields differ in
\* letter case only.
C6_CaseInsensitive ==
    /\ call.op = "findLoopsByTag" =>
          /\ \A q \in CaseVariants(call.arg) :
                findLoopsByTag(data, q) = ret.value
          /\ \A d \in DocCaseVariants(data) :
                Refs(findLoopsByTag(d, call.arg)) = Refs(ret.value)
    /\ call.op = "searchLoops" =>
          /\ \A q \in CaseVariants(call.arg) :
                searchLoops(data, q) = ret.value
          /\ \A d \in DocCaseVariants(data) :
                Refs(searchLoops(d, call.arg)) = Refs(ret.value)

\* C6, for ASCII texts: findLoopsByTag and searchLoops return the same
\* loops in the same order for any two ASCII queries that differ in letter
\* case only, and for any two documents whose stored tags, names and
\* narrative fields are ASCII and differ in letter case only.
C6_CaseInsensitiveAscii ==
    /\ call.op = "findLoopsByTag" =>
          /\ IsAscii(call.arg) =>
                \A q \in CaseVariants(call.arg) :
                    findLoopsByTag(data, q) = ret.value
          /\ StoredTextsAscii(data) =>
                \A d \in DocCaseVariants(data) :
                    Refs(findLoopsByTag(d, call.arg)) = Refs(ret.value)
    /\ call.op = "searchLoops" =>
          /\ IsAscii(call.arg) =>
                \A q \in CaseVariants(call.arg) :
                    searchLoops(data, q) = ret.value
          /\ StoredTextsAscii(data) =>
                \A d \in DocCaseVariants(data) :
                    Refs(searchLoops(d, call.arg)) = Refs(ret.value)

\* C6 witness: the tag search for "TRUST" found the loop tagged "trust".
C6_Witness ==
    /\ call.op = "findLoopsByTag"
    /\ call.arg = <<"T", "R", "U", "S", "T">>
    /\ Len(ret.value) = 1
    /\ ret.value[1].meta.tags = << <<"t", "r", "u", "s", "t">> >>

\* The final sigma tells two queries of one spelling apart: the tag search
\* for "a" and a capital sigma misses the tag "a" and small sigma, which the
\* search for the tag itself finds.
FinalSigmaMiss ==
    /\ toLowerCase(<<"a", CapitalSigma>>) = <<"a", SmallFinalSigma>>
    /\ toLowerCase(<<CapitalSigma>>) = <<SmallSigma>>
    /\ toLowerCase(<<CapitalIWithDot>>) = <<"i", CombiningDot>>
    /\ toLowerCase(<<"T", "R", "U", "S", "T">>) = <<"t", "r", "u", "s", "t">>
    /\ (/\ call.op = "findLoopsByTag"
        /\ call.arg = <<"a", CapitalSigma>>
        /\ Len(data.categories[1].loops) = 1
        /\ data.categories[1].loops[1].meta.tags = << <<"a", SmallSigma>> >>)
       => /\ ret.value = <<>>
          /\ Len(findLoopsByTag(data, <<"a", SmallSigma>>)) = 1

(***************************************************************************)
(* Claims on the statistics (SpecStats, SpecAverage)                       *)
(***************************************************************************)
\* The sum of the values of an object whose values are numbers
RECURSIVE SumOfValues(_)
SumOfValues(obj) ==
    IF DOMAIN obj = {} THEN 0
    ELSE LET k == CHOOSE k \in DOMAIN obj : TRUE
         IN  obj[k] + SumOfValues([p \in DOMAIN obj \ {k} |-> obj[p]])

\* obj[key] is the number n (a missing key reads as undefined, not as 0)
HasCount(obj, key, n) == key \in DOMAIN obj /\ obj[key] = n

\* C7 as stated: the counts of loopsByOrigin sum to the length of
\* getAllLoops(), and for each origin value o, loopsByOrigin[o] is the
\* length of findLoopsByOrigin(o).
C7_OriginCounts ==
    /\ call.op = "getStatistics" =>
          /\ SumOfValues(ret.value.loopsByOrigin) = Len(getAllLoops(data))
          /\ \A o \in LoopOrigin :
                HasCount(ret.value.loopsByOrigin, o,
                         Len(findLoopsByOrigin(data, o)))
    /\ call.op = "findLoopsByOrigin" =>
          HasCount(getStatistics(data).loopsByOrigin, call.arg, Len(ret.value))

\* What does hold of loopsByOrigin: the counts sum to the length of
\* getAllLoops(), every key o counts findLoopsByOrigin(o), and the keys are
\* the origins that some loop carries.
OriginCountsOnKeys ==
    call.op = "getStatistics" =>
        LET by == ret.value.loopsByOrigin
        IN  /\ SumOfValues(by) = Len(getAllLoops(data))
            /\ \A o \in LoopOrigin :
                  IF findLoopsByOrigin(data, o) = <<>>
                  THEN o \notin DOMAIN by
                  ELSE HasCount(by, o, Len(findLoopsByOrigin(data, o)))

\* C9: getStatistics() reports totalLoops and totalCategories as declared in
\* the metadata block, also when they differ from the number of loops of
\* getAllLoops() and the number of categories.
C9_DeclaredTotals ==
    call.op = "getStatistics" =>
        /\ ret.value.totalLoops = data.metadata.totalLoops
        /\ ret.value.totalCategories = data.metadata.totalCategories

\* C9 witness: the statistics of a document of three loops in one category
\* that declares 1140 loops and 279 categories.
C9_Witness ==
    /\ call.op = "getStatistics"
    /\ Len(getAllLoops(data)) = 3
    /\ Len(data.categories) = 1
    /\ ret.value.totalLoops = 1140
    /\ ret.value.totalCategories = 279

\* The sum of the difficulties of the loops, last to first
RECURSIVE TotalDifficulty(_)
TotalDifficulty(loops) ==
    IF loops = <<>> THEN 0
    ELSE loops[Len(loops)].intervention.difficulty
         + TotalDifficulty(SubSeq(loops, 1, Len(loops) - 1))

\* avg is a number in 1..10, the mean sum / n rounded half up to one
\* decimal: in tenths, the t with t - 1/2 <= 10 * sum / n < t + 1/2
IsRoundedMean(avg, sum, n) ==
    /\ avg.type = "number"
    /\ 10 <= avg.tenths /\ avg.tenths <= 100
    /\ (2 * avg.tenths - 1) * n <= 20 * sum
    /\ 20 * sum < (2 * avg.tenths + 1) * n

\* Every loop's difficulty is an integer in 1..10
DifficultiesInRange(loops) ==
    \A i \in 1..Len(loops) : loops[i].intervention.difficulty \in 1..10

\* C8 as stated: on every document whose difficulties are integers in
\* 1..10, averageInterventionDifficulty is a number in 1..10, the mean of
\* the difficulties over getAllLoops() rounded half up to one decimal.
C8_AverageAnyDocument ==
    LET all == getAllLoops(data)
    IN  (call.op = "getStatistics" /\ DifficultiesInRange(all)) =>
            IsRoundedMean(ret.value.averageInterventionDifficulty,
                          TotalDifficulty(all), Len(all))

\* C8 amended: on every document of at least one loop whose difficulties
\* are integers in 1..10, averageInterventionDifficulty is a number in
\* 1..10, the mean rounded half up to one decimal; on a document without
\* loops it is NaN.
C8_AverageNonEmpty ==
    LET all == getAllLoops(data)
    IN  (call.op = "getStatistics" /\ DifficultiesInRange(all)) =>
            IF all = <<>>
            THEN ret.value.averageInterventionDifficulty = NaN
            ELSE IsRoundedMean(ret.value.averageInterventionDifficulty,
                               TotalDifficulty(all), Len(all))

\* C8 witness: the difficulties 1, 1, 1, 2 have the mean 1.25, a tie that
\* is rounded up to 1.3.
C8_Witness ==
    /\ call.op = "getStatistics"
    /\ Len(getAllLoops(data)) = 4
    /\ TotalDifficulty(getAllLoops(data)) = 5
    /\ ret.value.averageInterventionDifficulty = Num(13)

(***************************************************************************)
(* Claims on the dictionaries (SpecDicts)                                  *)
(***************************************************************************)
\* The record of a dictionary entry carries an id property of its own
HasOwnId(value) == value # Null /\ "id" \in DOMAIN value

\* C3 as stated: the element getTraits() produces for the entry
\* (key, record) has id = key, also when the record carries an id.
C3_TraitIdIsKey ==
    call.op = "getTraits" =>
        /\ Len(ret.value) = Len(traitsData)
        /\ \A i \in 1..Len(traitsData) :
              Prop(ret.value[i], "id") = Str(traitsData[i].key)

\* C3 amended: the element getTraits() produces for the entry
\* (key, record) has id = key when the record carries no id of its own;
\* a record's own id is kept.
C3_TraitIdIsKeyWhereOmitted ==
    call.op = "getTraits" =>
        /\ Len(ret.value) = Len(traitsData)
        /\ \A i \in 1..Len(traitsData) :
              Prop(ret.value[i], "id") =
                  IF HasOwnId(traitsData[i].value)
                  THEN traitsData[i].value.id
                  ELSE Str(traitsData[i].key)

\* C3 witness: getTraits() on a dictionary of two records without an id;
\* each element carries its key as id.
C3_Witness ==
    /\ call.op = "getTraits"
    /\ Len(traitsData) = 2
    /\ \A i \in 1..2 :
          /\ ~HasOwnId(traitsData[i].value)
          /\ traitsData[i].value # Null
          /\ ret.value[i].id = Str(traitsData[i].key)
          /\ ret.value[i].name = traitsData[i].value.name

\* The metadata sentinel of biases.json
IsSentinel(key) == key = "_metadata"

\* The values of the entries that are bias records, in key order
BiasRecords(b) ==
    LET keep == {i \in 1..Len(b) : ~IsSentinel(b[i].key)}
        Nth[n \in 1..Cardinality(keep)] ==
            CHOOSE i \in keep : Cardinality({j \in keep : j < i}) = n - 1
    IN  [n \in 1..Cardinality(keep) |-> b[Nth[n]].value]

\* No value is null, every bias record carries a non-empty id and no
\* sentinel carries one
IdsTellRecords(b) ==
    \A i \in 1..Len(b) :
        /\ b[i].value # Null
        /\ IsSentinel(b[i].key) <=> ~Truthy(Prop(b[i].value, "id"))

\* getBiases() keeps every bias record and drops every sentinel
KeepsRecordsOnly(b) ==
    call.op = "getBiases" =>
        /\ ret.kind = "return"
        /\ Len(ret.value) = Len(b) - Cardinality({i \in 1..Len(b) :
                                                     IsSentinel(b[i].key)})
        /\ ret.value = BiasRecords(b)

\* C4 as stated: getBiases() returns as many elements as the dictionary has
\* entries minus the sentinel entries: every bias record is kept and every
\* sentinel is dropped, whatever the values are.
C4_BiasesMinusSentinels == KeepsRecordsOnly(biasesData)

\* C4 amended: the same, for every dictionary without null values in which
\* every bias record carries a non-empty id and no sentinel carries one.
C4_BiasesMinusSentinelsById ==
    IdsTellRecords(biasesData) => KeepsRecordsOnly(biasesData)

\* C4 witness: getBiases() on a dictionary of the sentinel and one bias
\* record with an id returned the record alone.
C4_Witness ==
    /\ call.op = "getBiases"
    /\ Len(biasesData) = 2
    /\ IdsTellRecords(biasesData)
    /\ IsSentinel(biasesData[1].key)
    /\ ret = Return(<<biasesData[2].value>>)

\* What getBiases() does on any dictionary: it throws when a value is
\* null, and otherwise keeps exactly the values with a non-empty id.
BiasesWithTruthyId ==
    call.op = "getBiases" =>
        IF \E i \in 1..Len(biasesData) : biasesData[i].value = Null
        THEN ret.kind = "throw"
        ELSE /\ ret.kind = "return"
             /\ Len(ret.value) =
                   Cardinality({i \in 1..Len(biasesData) :
                       Truthy(Prop(biasesData[i].value, "id"))})
             /\ \A k \in 1..Len(ret.value) : Truthy(Prop(ret.value[k], "id"))

====
